---- MODULE Spec2Model ----
(***************************************************************************)
(* Model of entt::basic_flow (src/src/entt/graph/flow.hpp): the recorder   *)
(* of task / resource accesses (task, ro, rw, clear) and the compilation   *)
(* of the recorded logs into an adjacency matrix (adjacency_matrix).       *)
(*                                                                         *)
(* Conventions.                                                            *)
(*  - std::size_t values are modelled by integers; the only value of the   *)
(*    upper half of the range that the program ever holds is placeholder   *)
(*    (the maximum of std::size_t), modelled by its representative -1      *)
(*    modulo 2^64.  A flat matrix index row * length + column computed in  *)
(*    std::size_t arithmetic is therefore negative in the model exactly    *)
(*    when the program's value lies in the upper half of the range, which  *)
(*    is far outside the length * length cells of the matrix.              *)
(*  - A container position (iterator) of a log is a number in 1..n+1,     *)
(*    n+1 being the end iterator "last".                                   *)
(*  - The fluent calls return the recorder itself; that value is not       *)
(*    modelled.                                                            *)
(***************************************************************************)
EXTENDS Integers, Sequences, FiniteSets

(* ------------------------------ bounds --------------------------------- *)

\* Spec: number of distinct task identifiers a caller may pass to task()
NumKeys == 2
\* Spec: number of distinct resource identifiers a caller may pass to ro() / rw()
NumRes == 1
\* Spec: cap on the number of access events recorded since the last clear()
MaxEvents == 2
\* SpecGraph: largest number of registered tasks of a compiled recorder state
MaxTasks == 3
\* SpecGraph: largest number of resource logs of a compiled recorder state
MaxLogs == 2
\* SpecGraph: largest total number of access events of a compiled recorder state
MaxAccesses == 3
\* SpecLog: largest number of registered tasks of a compiled one-resource recorder state
MaxLogTasks == 4
\* SpecLog: largest number of access events of the resource log
MaxLogAccesses == 4
\* SpecWide: largest number of registered tasks of a compiled recorder state
MaxWideTasks == 2
\* SpecWide: largest number of resource logs of a compiled recorder state
MaxWideLogs == 3
\* SpecWide: largest total number of access events of a compiled recorder state
MaxWideAccesses == 4

Keys == 1..NumKeys
Resources == 1..NumRes

(* --------------------------- program state ----------------------------- *)

VARIABLES
    index,       \* compressed_pair first(): index of the current task, or placeholder
    task,        \* dense_set of task identifiers, in insertion order
    deps,        \* dense_map resource -> log of (task index, is_rw), in insertion order
    assertions,  \* build configuration: does ENTT_ASSERT evaluate its condition
    last         \* outcome of the last call: its status and, for adjacency_matrix, the matrix

vars == <<index, task, deps, assertions, last>>

\* std::numeric_limits<std::size_t>::max(), as its representative modulo 2^64
placeholder == -1

\* the outcome of a call that computes no matrix
NoGraph ==
    [done |-> FALSE, length |-> 0, synthesized |-> <<>>, closed |-> <<>>, edges |-> <<>>]

Outcome(status, graph) == [status |-> status, graph |-> graph]

(* ----------------------------- containers ------------------------------ *)

\* dense_set::find followed by `it - cbegin()`: the 0-based position of value
\* in the registry, or the size of the registry (cend) when it is absent
Find(set, value) ==
    IF \E n \in 1..Len(set) : set[n] = value
    THEN (CHOOSE n \in 1..Len(set) : set[n] = value) - 1
    ELSE Len(set)

\* dense_map::operator[] followed by push_back: the entry of res is created
\* at the end of the map when it is missing, and the event is appended to it
PushBack(map, res, event) ==
    IF \E n \in 1..Len(map) : map[n].first = res
    THEN [n \in 1..Len(map) |->
            IF map[n].first = res
            THEN [first |-> res, second |-> Append(map[n].second, event)]
            ELSE map[n]]
    ELSE Append(map, [first |-> res, second |-> <<event>>])

RECURSIVE Events(_)
\* total number of recorded events
Events(map) ==
    IF map = <<>> THEN 0 ELSE Len(Head(map).second) + Events(Tail(map))

(* ------------------------------ recorder ------------------------------- *)

\* a failed assertion or a crash has ended the program
Halted == last.status \in {"InvalidState", "crash"}

Init ==
    /\ index = placeholder
    /\ task = <<>>
    /\ deps = <<>>
    /\ assertions \in BOOLEAN
    /\ last = Outcome("ok", NoGraph)

\* mutant of Task: the index is read after the emplace
TaskIndexAfterEmplace(value) ==
    /\ ~Halted
    /\ IF Find(task, value) = Len(task)
       THEN /\ task' = Append(task, value)
            /\ index' = Len(task')
       ELSE /\ index' = Find(task, value)
            /\ UNCHANGED task
    /\ last' = Outcome("ok", NoGraph)
    /\ UNCHANGED <<deps, assertions>>

Task(value) ==
    /\ ~Halted
    /\ IF Find(task, value) = Len(task)
       THEN /\ index' = Len(task)
            /\ task' = Append(task, value)
       ELSE /\ index' = Find(task, value)
            /\ UNCHANGED task
    /\ last' = Outcome("ok", NoGraph)
    /\ UNCHANGED <<deps, assertions>>

\* ENTT_ASSERT(condition, msg) lets the program go on: a build that evaluates
\* assertions ends the program when the condition is false, a build that
\* does not evaluate them goes on whatever the condition
ENTT_ASSERT(condition) == assertions => condition

\* the body shared by ro (is_rw = FALSE) and rw (is_rw = TRUE): the
\* assertion that a task is selected, then the push_back
Declare(res, is_rw) ==
    /\ ~Halted
    /\ Events(deps) < MaxEvents
    /\ IF ~ENTT_ASSERT(index # placeholder)
       THEN /\ last' = Outcome("InvalidState", NoGraph)
            /\ UNCHANGED deps
       ELSE /\ deps' = PushBack(deps, res, [first |-> index, second |-> is_rw])
            /\ last' = Outcome("ok", NoGraph)
    /\ UNCHANGED <<index, task, assertions>>

ro(res) == Declare(res, FALSE)

rw(res) == Declare(res, TRUE)

clear ==
    /\ ~Halted
    /\ index' = placeholder
    /\ task' = <<>>
    /\ deps' = <<>>
    /\ last' = Outcome("ok", NoGraph)
    /\ UNCHANGED assertions

(* ------------------------- adjacency_matrix ---------------------------- *)


\* std::find_if(it, last, is_rw): the first position at or after it that holds
\* a rw event, or last (one past the end) when there is none
FindIf(log, it) ==
    IF \E n \in it..Len(log) : log[n].second
    THEN CHOOSE n \in it..Len(log) :
            log[n].second /\ \A m \in it..(n - 1) : ~log[m].second
    ELSE Len(log) + 1

RECURSIVE WalkReadersUnordered(_, _, _)
\* mutant of Walk: the readers that follow a rw item get no edge to the next rw item
WalkReadersUnordered(log, it, acc) ==
    LET end == Len(log) + 1 IN
    IF it = end THEN acc
    ELSE IF log[it].second
    THEN \* rw item
         LET curr == it
             nxt == it + 1
         IN IF nxt = end THEN WalkReadersUnordered(log, nxt, acc)
            ELSE IF log[nxt].second
            THEN WalkReadersUnordered(log, nxt, acc \cup {<<curr, nxt>>})
            ELSE LET next == FindIf(log, nxt) IN
                 IF next # end
                 THEN WalkReadersUnordered(log, next,
                           acc \cup {<<curr, x>> : x \in nxt..(next - 1)})
                 ELSE WalkReadersUnordered(log, next,
                           acc \cup {<<curr, x>> : x \in nxt..(next - 1)})
    ELSE \* ro item
         LET next == FindIf(log, it) IN
         IF next # end
         THEN WalkReadersUnordered(log, next, acc \cup {<<x, next>> : x \in it..(next - 1)})
         ELSE WalkReadersUnordered(log, end, acc)


RECURSIVE WalkSelfEdge(_, _, _)
\* mutant of Walk: two rw items in a row set the cell (curr, curr)
WalkSelfEdge(log, it, acc) ==
    LET end == Len(log) + 1 IN
    IF it = end THEN acc
    ELSE IF log[it].second
    THEN \* rw item
         LET curr == it
             nxt == it + 1
         IN IF nxt = end THEN WalkSelfEdge(log, nxt, acc)
            ELSE IF log[nxt].second
            THEN WalkSelfEdge(log, nxt, acc \cup {<<curr, curr>>})
            ELSE LET next == FindIf(log, nxt) IN
                 IF next # end
                 THEN WalkSelfEdge(log, next,
                           acc \cup {<<curr, x>> : x \in nxt..(next - 1)}
                               \cup {<<x, next>> : x \in nxt..(next - 1)})
                 ELSE WalkSelfEdge(log, next,
                           acc \cup {<<curr, x>> : x \in nxt..(next - 1)})
    ELSE \* ro item
         LET next == FindIf(log, it) IN
         IF next # end
         THEN WalkSelfEdge(log, next, acc \cup {<<x, next>> : x \in it..(next - 1)})
         ELSE WalkSelfEdge(log, end, acc)


RECURSIVE WalkNextIsWriter(_, _, _)
\* mutant of Walk: a ro item takes the item after it for the next rw item
WalkNextIsWriter(log, it, acc) ==
    LET end == Len(log) + 1 IN
    IF it = end THEN acc
    ELSE IF log[it].second
    THEN \* rw item
         LET curr == it
             nxt == it + 1
         IN IF nxt = end THEN WalkNextIsWriter(log, nxt, acc)
            ELSE IF log[nxt].second
            THEN WalkNextIsWriter(log, nxt, acc \cup {<<curr, nxt>>})
            ELSE LET next == FindIf(log, nxt) IN
                 IF next # end
                 THEN WalkNextIsWriter(log, next,
                           acc \cup {<<curr, x>> : x \in nxt..(next - 1)}
                               \cup {<<x, next>> : x \in nxt..(next - 1)})
                 ELSE WalkNextIsWriter(log, next,
                           acc \cup {<<curr, x>> : x \in nxt..(next - 1)})
    ELSE \* ro item
         LET next == it + 1 IN
         IF next # end
         THEN WalkNextIsWriter(log, next, acc \cup {<<x, next>> : x \in it..(next - 1)})
         ELSE WalkNextIsWriter(log, end, acc)


RECURSIVE Walk(_, _, _)
\* the while loop over one log: the pairs <<p, q>> of positions for which the
\* loop executes edges[log[p].first * length + log[q].first] = true, acc being
\* the pairs of the iterations already done and it the current iterator
Walk(log, it, acc) ==
    LET end == Len(log) + 1 IN
    IF it = end THEN acc
    ELSE IF log[it].second
    THEN \* rw item
         LET curr == it
             nxt == it + 1
         IN IF nxt = end THEN Walk(log, nxt, acc)
            ELSE IF log[nxt].second
            THEN Walk(log, nxt, acc \cup {<<curr, nxt>>})
            ELSE LET next == FindIf(log, nxt) IN
                 IF next # end
                 THEN Walk(log, next,
                           acc \cup {<<curr, x>> : x \in nxt..(next - 1)}
                               \cup {<<x, next>> : x \in nxt..(next - 1)})
                 ELSE Walk(log, next,
                           acc \cup {<<curr, x>> : x \in nxt..(next - 1)})
    ELSE \* ro item
         LET next == FindIf(log, it) IN
         IF next # end
         THEN Walk(log, next, acc \cup {<<x, next>> : x \in it..(next - 1)})
         ELSE Walk(log, end, acc)

\* the flat index row * length + column, in std::size_t arithmetic
Flat(row, column, length) == row * length + column

\* the flat indices written for one log
Writes(log, length) ==
    {Flat(log[pq[1]].first, log[pq[2]].first, length) : pq \in Walk(log, 1, {})}

\* a flat index that is a cell of the length * length matrix
InBounds(cell, length) == cell >= 0 /\ cell < length * length

RECURSIVE Synthesize(_, _, _, _)
\* "creates the adjacency matrix": the for loop over deps, from entry n on;
\* a write outside the matrix does not change the matrix
Synthesize(map, length, n, edges) ==
    IF n > Len(map) THEN edges
    ELSE LET cells == Writes(map[n].second, length)
         IN Synthesize(map, length, n + 1,
                       [c \in DOMAIN edges |-> edges[c] \/ c \in cells])

RECURSIVE ClosureInnermost(_, _, _)
\* mutant of Closure: vk is the innermost loop, vi the outermost
ClosureInnermost(edges, length, step) ==
    IF step >= length * length * length THEN edges
    ELSE LET vi == step \div (length * length)
             vj == (step \div length) % length
             vk == step % length
         IN ClosureInnermost([edges EXCEPT ![vi * length + vj] =
                                 edges[vi * length + vj]
                                     \/ (edges[vi * length + vk] /\ edges[vk * length + vj])],
                             length, step + 1)

RECURSIVE ClosureTransposed(_, _, _)
\* mutant of Closure: the cell assigned is (vj, vi)
ClosureTransposed(edges, length, step) ==
    IF step >= length * length * length THEN edges
    ELSE LET vk == step \div (length * length)
             vi == (step \div length) % length
             vj == step % length
         IN ClosureTransposed([edges EXCEPT ![vj * length + vi] =
                                  edges[vi * length + vj]
                                      \/ (edges[vi * length + vk] /\ edges[vk * length + vj])],
                              length, step + 1)

RECURSIVE Closure(_, _, _)
\* "computes the transitive closure": the three nested loops, step being the
\* number of iterations of the innermost body already done (vk outermost)
Closure(edges, length, step) ==
    IF step >= length * length * length THEN edges
    ELSE LET vk == step \div (length * length)
             vi == (step \div length) % length
             vj == step % length
         IN Closure([edges EXCEPT ![vi * length + vj] =
                        edges[vi * length + vj]
                            \/ (edges[vi * length + vk] /\ edges[vk * length + vj])],
                    length, step + 1)

\* the first loop of "applies the transitive reduction": the diagonal is cleared
ClearDiagonal(edges, length) ==
    [c \in DOMAIN edges |-> IF c \div length = c % length THEN FALSE ELSE edges[c]]

RECURSIVE ReduceRowTransposed(_, _, _, _, _)
\* mutant of ReduceRow: the cell cleared is (vk, vi)
ReduceRowTransposed(edges, length, vi, vj, vk) ==
    IF vk >= length THEN edges
    ELSE ReduceRowTransposed(IF edges[vj * length + vk]
                             THEN [edges EXCEPT ![vk * length + vi] = FALSE]
                             ELSE edges,
                             length, vi, vj, vk + 1)

RECURSIVE ReduceRow(_, _, _, _, _)
\* the innermost loop over vk of the reduction, for a pair (vi, vj)
ReduceRow(edges, length, vi, vj, vk) ==
    IF vk >= length THEN edges
    ELSE ReduceRow(IF edges[vj * length + vk]
                   THEN [edges EXCEPT ![vi * length + vk] = FALSE]
                   ELSE edges,
                   length, vi, vj, vk + 1)

RECURSIVE ReduceUnguarded(_, _, _)
\* mutant of Reduce: the loop over vk runs whether or not edges[vi * length + vj] holds
ReduceUnguarded(edges, length, step) ==
    IF step >= length * length THEN edges
    ELSE LET vj == step \div length
             vi == step % length
         IN ReduceUnguarded(ReduceRow(edges, length, vi, vj, 0), length, step + 1)

RECURSIVE Reduce(_, _, _)
\* the loops over vj (outer) and vi (inner) of the reduction, step being the
\* number of (vj, vi) pairs already done
Reduce(edges, length, step) ==
    IF step >= length * length THEN edges
    ELSE LET vj == step \div length
             vi == step % length
         IN Reduce(IF edges[vi * length + vj]
                   THEN ReduceRow(edges, length, vi, vj, 0)
                   ELSE edges,
                   length, step + 1)

\* the matrix of length * length cells, all false
Zero(length) == [c \in 0..(length * length - 1) |-> FALSE]

\* mutant of Graph: the matrix is returned as closed, the reduction left out
GraphUnreduced(map, length) ==
    LET a == Synthesize(map, length, 1, Zero(length))
        b == Closure(a, length, 0)
    IN [done |-> TRUE, length |-> length, synthesized |-> a, closed |-> b, edges |-> b]

\* the local `edges` at the end of each stage of adjacency_matrix, for a
\* registry of `length` tasks and the logs `map`
Graph(map, length) ==
    LET a == Synthesize(map, length, 1, Zero(length))
        b == Closure(a, length, 0)
        d == Reduce(ClearDiagonal(b, length), length, 0)
    IN [done |-> TRUE, length |-> length, synthesized |-> a, closed |-> b, edges |-> d]

\* some write of the synthesis lies outside the matrix: undefined behaviour
OutOfBounds(map, length) ==
    \E n \in 1..Len(map) : \E c \in Writes(map[n].second, length) : ~InBounds(c, length)

\* what a call of adjacency_matrix can end in: the matrix, or, when a write
\* lies outside the matrix, either a crash or the matrix (the stray write
\* having landed in memory that is not the matrix)
Results(map, length) ==
    {Outcome("ok", Graph(map, length))}
        \cup IF OutOfBounds(map, length)
             THEN {Outcome("crash", NoGraph)}
             ELSE {}

adjacency_matrix ==
    /\ ~Halted
    /\ last' \in Results(deps, Len(task))
    /\ UNCHANGED <<index, task, deps, assertions>>

Next ==
    \/ \E value \in Keys : Task(value)
    \/ \E res \in Resources : ro(res)
    \/ \E res \in Resources : rw(res)
    \/ clear
    \/ adjacency_matrix

Spec == Init /\ [][Next]_vars

(* ------------------- compilation of recorder states -------------------- *)
(* adjacency_matrix reads the size of the registry and the logs only: not  *)
(* the identifiers of the tasks and of the resources, nor index.  InitGraph *)
(* draws one recorder state for every size of the registry and every       *)
(* content of the logs that task / ro / rw calls produce within the       *)
(* bounds: the tasks 1..n registered in this order and selected up to the  *)
(* last one, the resources 1..r in this order, every event carrying the    *)
(* index of a registered task, or placeholder when it was declared before  *)
(* the first task() by a build that does not evaluate its assertions.      *)

\* the events ro / rw can append while n tasks are registered or none is selected
EventsOf(n) == [first : (0..(n - 1)) \cup {placeholder}, second : BOOLEAN]

\* index is placeholder only until the first task(): such events come first
PlaceholderFirst(log) ==
    \A p \in 1..Len(log) : \A q \in 1..Len(log) :
        (p < q /\ log[q].first = placeholder) => log[p].first = placeholder

RECURSIVE Total(_, _)
\* the sum of the first k lengths
Total(len, k) == IF k = 0 THEN 0 ELSE len[k] + Total(len, k - 1)

InitGraph ==
    \E n \in 0..MaxTasks : \E r \in 0..MaxLogs : \E len \in [1..r -> 1..MaxAccesses] :
        /\ Total(len, r) <= MaxAccesses
        /\ \E flat \in [1..Total(len, r) -> EventsOf(n)] :
            LET logs == [k \in 1..r |->
                            [first |-> k,
                             second |-> [p \in 1..len[k] |-> flat[Total(len, k - 1) + p]]]]
            IN /\ \A k \in 1..r : PlaceholderFirst(logs[k].second)
               /\ deps = logs
               /\ task = [i \in 1..n |-> i]
               /\ index = IF n = 0 THEN placeholder ELSE n - 1
               /\ assertions = (\A k \in 1..Total(len, r) : flat[k].first # placeholder)
               /\ last = Outcome("ok", NoGraph)

NextGraph == adjacency_matrix

SpecGraph == InitGraph /\ [][NextGraph]_vars

(* ----------------- compilation of one-resource recorders --------------- *)
(* InitLog draws the recorder states in which one resource has been        *)
(* declared: a registry of n tasks and one log of events of these tasks.   *)

InitLog ==
    \E n \in 0..MaxLogTasks : \E len \in 1..MaxLogAccesses : \E log \in [1..len -> EventsOf(n)] :
        /\ PlaceholderFirst(log)
        /\ deps = <<[first |-> 1, second |-> log]>>
        /\ task = [i \in 1..n |-> i]
        /\ index = IF n = 0 THEN placeholder ELSE n - 1
        /\ assertions = (\A k \in 1..len : log[k].first # placeholder)
        /\ last = Outcome("ok", NoGraph)

NextLog == adjacency_matrix

SpecLog == InitLog /\ [][NextLog]_vars

(* ------------ compilation of recorders with several resources ---------- *)
(* InitWide draws recorder states as InitGraph does, with fewer tasks and  *)
(* more resources.                                                         *)

InitWide ==
    \E n \in 0..MaxWideTasks : \E r \in 0..MaxWideLogs : \E len \in [1..r -> 1..MaxWideAccesses] :
        /\ Total(len, r) <= MaxWideAccesses
        /\ \E flat \in [1..Total(len, r) -> EventsOf(n)] :
            LET logs == [k \in 1..r |->
                            [first |-> k,
                             second |-> [p \in 1..len[k] |-> flat[Total(len, k - 1) + p]]]]
            IN /\ \A k \in 1..r : PlaceholderFirst(logs[k].second)
               /\ deps = logs
               /\ task = [i \in 1..n |-> i]
               /\ index = IF n = 0 THEN placeholder ELSE n - 1
               /\ assertions = (\A k \in 1..Total(len, r) : flat[k].first # placeholder)
               /\ last = Outcome("ok", NoGraph)

NextWide == adjacency_matrix

SpecWide == InitWide /\ [][NextWide]_vars

(* ------------- recorders that never select a task again ---------------- *)
(* The recorder used so that every task() call names a key that is not     *)
(* registered: the other calls are those of Spec.                          *)

\* task(value) for a value that find() does not find (line 203, it == cend)
TaskUnseen(value) ==
    /\ Find(task, value) = Len(task)
    /\ Task(value)

NextFresh ==
    \/ \E value \in Keys : TaskUnseen(value)
    \/ \E res \in Resources : ro(res)
    \/ \E res \in Resources : rw(res)
    \/ clear
    \/ adjacency_matrix

SpecFresh == Init /\ [][NextFresh]_vars

(* ------------------------------ claims --------------------------------- *)

\* the last call was an adjacency_matrix that returned: last.graph holds its matrices
Compiled == last.status = "ok" /\ last.graph.done
Tasks == 0..(Len(task) - 1)

\* the cell (i, j) of a matrix of Len(task) * Len(task) cells
Edge(m, i, j) == m[i * Len(task) + j]

\* such a matrix as a set of edges
Rel(m) == {e \in Tasks \X Tasks : m[e[1] * Len(task) + e[2]]}

RECURSIVE Paths(_, _)
\* the pairs joined by a path of 1 to k edges of R
Paths(R, k) ==
    IF k <= 1 THEN R
    ELSE LET T == Paths(R, k - 1)
         IN T \cup {<<x[1][1], x[2][2]>> : x \in {y \in T \X R : y[1][2] = y[2][1]}}

\* reachability along one or more edges of a matrix
Reach(m) == Paths(Rel(m), Len(task))
Acyclic(m) == LET R == Reach(m) IN \A i \in Tasks : <<i, i>> \notin R

\* the events at positions p < q of a log belong to distinct tasks and one writes
Conflicting(log, p, q) ==
    /\ p < q
    /\ log[p].first \in Tasks /\ log[q].first \in Tasks
    /\ log[p].first # log[q].first
    /\ log[p].second \/ log[q].second

\* the ordered pairs of tasks with conflicting accesses, in log order
Conflicts ==
    UNION {{<<deps[n].second[pq[1]].first, deps[n].second[pq[2]].first>> :
                pq \in {x \in (1..Len(deps[n].second)) \X (1..Len(deps[n].second)) :
                           Conflicting(deps[n].second, x[1], x[2])}} :
           n \in 1..Len(deps)}

\* C1: every pair of conflicting accesses of a resource (distinct tasks, at
\* least one Write) is ordered in the final graph: the task of the earlier
\* event reaches the task of the later event along edges of the reduced graph.
C1_ConflictsOrdered == Compiled => Conflicts \subseteq Reach(last.graph.edges)

\* C1 witness: a compiled state with a conflicting pair that the final graph
\* orders through a path and not through a direct edge
C1_Witness ==
    /\ Compiled
    /\ \E e \in Conflicts : ~Edge(last.graph.edges, e[1], e[2])

\* C2 as stated: the compiled graph is acyclic in every reachable recorder state.
C2_AlwaysAcyclic == Compiled => Acyclic(last.graph.edges)

\* C2 as amended: the compiled graph is acyclic in every reachable recorder
\* state whose synthesized (Stage A) relation is acyclic.
C2_AcyclicWhenSynthesisAcyclic ==
    (Compiled /\ Acyclic(last.graph.synthesized)) => Acyclic(last.graph.edges)

\* C2 witness: an acyclic synthesized relation compiled to a graph with a path of two edges
C2_Witness ==
    /\ Compiled
    /\ Acyclic(last.graph.synthesized)
    /\ \E i \in Tasks : \E j \in Tasks : \E k \in Tasks :
          Edge(last.graph.edges, i, j) /\ Edge(last.graph.edges, j, k)

\* no log lists a task after a task of higher index
Monotone ==
    \A n \in 1..Len(deps) : \A p \in 1..Len(deps[n].second) : \A q \in 1..Len(deps[n].second) :
        p < q => deps[n].second[p].first <= deps[n].second[q].first

\* no task has, in one log, a Write together with another access
NoSelfConflict ==
    \A n \in 1..Len(deps) : \A p \in 1..Len(deps[n].second) : \A q \in 1..Len(deps[n].second) :
        (p < q /\ deps[n].second[p].first = deps[n].second[q].first)
            => ~(deps[n].second[p].second \/ deps[n].second[q].second)

\* a matrix without a true diagonal entry
NoDiagonal(m) == \A i \in Tasks : ~Edge(m, i, i)

\* C3 as stated: in every reachable recorder state the synthesized relation
\* is acyclic, so that the closed matrix has no true diagonal entry.
C3_SynthesisAlwaysAcyclic == Compiled => NoDiagonal(last.graph.closed)

\* C3 as amended: the closed matrix has no true diagonal entry in every
\* reachable recorder state in which no log lists a task after a task of
\* higher index and no task has a Write together with another access in one log.
C3_SynthesisAcyclicWhenOrdered ==
    (Compiled /\ Monotone /\ NoSelfConflict) => NoDiagonal(last.graph.closed)

\* C3 witness: such a state in which the closure has added an edge to the synthesized ones
C3_Witness ==
    /\ Compiled /\ Monotone /\ NoSelfConflict
    /\ last.graph.closed # last.graph.synthesized

\* C4 as stated: the closure recomputed on the final graph equals the closed
\* matrix of Stage B entry by entry, diagonal included.
C4_ClosurePreserved ==
    Compiled => Closure(last.graph.edges, Len(task), 0) = last.graph.closed

\* C4 as amended: the closure recomputed on the final graph equals the closed
\* matrix of Stage B in every entry off the diagonal, and on the diagonal too
\* when the synthesized relation is acyclic.
C4_ClosurePreservedOffDiagonal ==
    Compiled =>
        LET reclosed == Closure(last.graph.edges, Len(task), 0) IN
        /\ \A i \in Tasks : \A j \in Tasks :
              i # j => Edge(reclosed, i, j) = Edge(last.graph.closed, i, j)
        /\ NoDiagonal(last.graph.closed) => reclosed = last.graph.closed

\* C4 witness: the reduction has removed an edge of a closed relation without a cycle
C4_Witness ==
    /\ Compiled
    /\ NoDiagonal(last.graph.closed)
    /\ \E i \in Tasks : \E j \in Tasks :
          Edge(last.graph.closed, i, j) /\ ~Edge(last.graph.edges, i, j)

\* C5: minimality: the final graph has no edge i -> k beside edges i -> j and j -> k.
C5_Minimal ==
    Compiled =>
        \A i \in Tasks : \A j \in Tasks : \A k \in Tasks :
            (Edge(last.graph.edges, i, j) /\ Edge(last.graph.edges, j, k))
                => ~Edge(last.graph.edges, i, k)

\* C5 witness: a final graph with edges i -> j and j -> k over three distinct tasks
C5_Witness ==
    /\ Compiled
    /\ \E i \in Tasks : \E j \in Tasks : \E k \in Tasks :
          /\ i # j /\ j # k /\ i # k
          /\ Edge(last.graph.edges, i, j) /\ Edge(last.graph.edges, j, k)

\* C6: the final graph has no edge i -> i, also when the synthesis or the
\* closure produced one.
C6_NoSelfLoop == Compiled => NoDiagonal(last.graph.edges)

\* C6 witness: a compiled state whose closed matrix has a true diagonal entry
C6_Witness == Compiled /\ ~NoDiagonal(last.graph.closed)

\* C10 (first part): every pair of events of one log for which the synthesis
\* sets a cell holds a Write; (second part) a log of Reads only sets no cell,
\* and logs of Reads only leave the synthesized matrix empty.
C10_NoEdgeBetweenReads ==
    /\ \A n \in 1..Len(deps) :
          LET log == deps[n].second IN
          /\ \A pq \in Walk(log, 1, {}) : log[pq[1]].second \/ log[pq[2]].second
          /\ (\A p \in 1..Len(log) : ~log[p].second) => Writes(log, Len(task)) = {}
    /\ (Compiled /\ \A n \in 1..Len(deps) : \A p \in 1..Len(deps[n].second) :
                        ~deps[n].second[p].second)
          => last.graph.synthesized = Zero(Len(task))

\* C10 witness: a compiled log in which Reads of two tasks meet, once before a
\* Write (so that the log does set cells) and, in another state, with no Write at all
C10_Witness ==
    /\ Compiled
    /\ \E n \in 1..Len(deps) :
          LET log == deps[n].second IN
          /\ Len(log) >= 3
          /\ ~log[1].second /\ ~log[2].second /\ log[1].first # log[2].first
          /\ log[1].first \in Tasks /\ log[2].first \in Tasks
          /\ Walk(log, 1, {}) # {}

\* C7: a ro or rw while no task is selected fails with InvalidState and leaves
\* every resource log as it was: no entry is created, no event is appended.
C7_DeclareWithoutTaskFails ==
    [][\A res \in Resources :
          (index = placeholder /\ (ro(res) \/ rw(res)))
              => (last'.status = "InvalidState" /\ deps' = deps)]_vars

\* the 0-based index of a registered key
KeyIndex(set, key) == (CHOOSE n \in 1..Len(set) : set[n] = key) - 1
Registered(set) == {set[n] : n \in 1..Len(set)}

\* C8: the registered keys map one-to-one onto the indices 0..N-1; task() of
\* an unseen key selects index N and registers the key at N, task() of a
\* registered key selects the index of that key and leaves N as it is; either
\* way every other key keeps its index, and ro, rw and adjacency_matrix leave
\* the registry and the selection as they are.
C8_DenseIndices ==
    /\ [](\A a \in 1..Len(task) : \A b \in 1..Len(task) : task[a] = task[b] => a = b)
    /\ [][\A value \in Keys : Task(value) =>
              /\ IF value \in Registered(task)
                 THEN index' = KeyIndex(task, value) /\ Len(task') = Len(task)
                 ELSE /\ index' = Len(task)
                      /\ Len(task') = Len(task) + 1
                      /\ KeyIndex(task', value) = Len(task)
              /\ \A key \in Registered(task) :
                    key \in Registered(task') /\ KeyIndex(task', key) = KeyIndex(task, key)]_vars
    /\ [][((\E res \in Resources : ro(res) \/ rw(res)) \/ adjacency_matrix)
              => (task' = task /\ index' = index)]_vars

\* C8 witness: two keys are registered and the first one is selected again
C8_Witness == Len(task) = 2 /\ index = 0 /\ deps # <<>>

\* C9: clear() returns the recorder to its initial state: no task registered,
\* no resource log, no task selected, so that the next task() gets index 0,
\* a ro or rw issued next is InvalidState, and adjacency_matrix gives the
\* graph of no task and no edge.
C9_ClearResets ==
    [][clear =>
          /\ index' = placeholder /\ task' = <<>> /\ deps' = <<>>
          /\ \A value \in Keys : Find(task', value) = Len(task') /\ Len(task') = 0
          /\ ~(ENTT_ASSERT(index # placeholder))'
          /\ \A r \in Results(deps', Len(task')) :
                r.status = "ok" /\ r.graph.length = 0 /\ r.graph.edges = <<>>]_vars

\* C9 without the clause on ro and rw: what clear() itself establishes
C9_ClearResetsState ==
    [][clear =>
          /\ index' = placeholder /\ task' = <<>> /\ deps' = <<>>
          /\ \A value \in Keys : Find(task', value) = Len(task') /\ Len(task') = 0
          /\ \A r \in Results(deps', Len(task')) :
                r.status = "ok" /\ r.graph.length = 0 /\ r.graph.edges = <<>>]_vars

\* the events of a log belong to pairwise distinct registered tasks
DistinctTasks(log) ==
    /\ \A p \in 1..Len(log) : log[p].first \in Tasks
    /\ \A p \in 1..Len(log) : \A q \in 1..Len(log) : log[p].first = log[q].first => p = q

\* a log of one Write, then one or more Reads, then one Write, of distinct tasks
DiamondLog(log) ==
    /\ Len(log) >= 3
    /\ DistinctTasks(log)
    /\ \A p \in 1..Len(log) : log[p].second = (p = 1 \/ p = Len(log))

\* C11: diamond: when the only log is rw by A, then ro by m >= 1 tasks B1..Bm,
\* then rw by D, all tasks distinct, the final graph has exactly the edges
\* A -> Bi and Bi -> D: no edge between two readers, no edge A -> D.
C11_Diamond ==
    (Compiled /\ Len(deps) = 1 /\ DiamondLog(deps[1].second)) =>
        LET log == deps[1].second
            readers == {log[p].first : p \in 2..(Len(log) - 1)}
        IN Rel(last.graph.edges) =
               {<<log[1].first, b>> : b \in readers}
                   \cup {<<b, log[Len(log)].first>> : b \in readers}

\* C11 witness: a compiled diamond of two readers
C11_Witness ==
    /\ Compiled /\ Len(deps) = 1 /\ DiamondLog(deps[1].second)
    /\ Len(deps[1].second) = 4

\* a log of two or more Writes of distinct tasks
ChainLog(log) ==
    /\ Len(log) >= 2
    /\ DistinctTasks(log)
    /\ \A p \in 1..Len(log) : log[p].second

\* C12: write chain: when the only log is rw by n >= 2 distinct tasks T0..Tn-1
\* in this order, the final graph has exactly the edges Ti -> Ti+1, and in the
\* closure of the final graph Ti reaches Tj for every i < j.
C12_WriteChain ==
    (Compiled /\ Len(deps) = 1 /\ ChainLog(deps[1].second)) =>
        LET log == deps[1].second
            reclosed == Closure(last.graph.edges, Len(task), 0)
        IN /\ Rel(last.graph.edges) =
                  {<<log[p].first, log[p + 1].first>> : p \in 1..(Len(log) - 1)}
           /\ \A p \in 1..Len(log) : \A q \in 1..Len(log) :
                  p < q => Edge(reclosed, log[p].first, log[q].first)

\* C12 witness: a compiled chain of four writers that are not in the order of registration
C12_Witness ==
    /\ Compiled /\ Len(deps) = 1 /\ ChainLog(deps[1].second)
    /\ Len(deps[1].second) = 4
    /\ deps[1].second[1].first > deps[1].second[2].first

\* the orders in which the n entries of deps can be iterated
Orders(n) == {f \in [1..n -> 1..n] : \A a \in 1..n : \A b \in 1..n : f[a] = f[b] => a = b}

\* deps iterated in the order f
Reordered(map, f) == [k \in 1..Len(map) |-> map[f[k]]]

\* C13: adjacency_matrix leaves the registry, the current task and every log
\* as they are; from one recorder state it has one outcome only, the one of
\* the call just made; and the outcome is the same in whatever order the
\* resources are iterated.
C13_Deterministic ==
    [][adjacency_matrix =>
          /\ task' = task /\ index' = index /\ deps' = deps
          /\ Results(deps, Len(task)) = {last'}
          /\ \A f \in Orders(Len(deps)) :
                Results(Reordered(deps, f), Len(task)) = Results(deps, Len(task))]_vars

\* C13 for the recorder states whose compilation writes inside the matrix only
C13_DeterministicInBounds ==
    [][(adjacency_matrix /\ ~OutOfBounds(deps, Len(task))) =>
          /\ task' = task /\ index' = index /\ deps' = deps
          /\ Results(deps, Len(task)) = {last'}
          /\ \A f \in Orders(Len(deps)) :
                Results(Reordered(deps, f), Len(task)) = Results(deps, Len(task))]_vars

\* the recorder state after task X has declared ro(foo) and rw(bar) and task Y
\* ro(foo) and ro(quux): x and y are the indices of X and Y, and foo, bar and
\* quux the positions of the three resources in deps
Independent(x, y, foo, bar, quux) ==
    /\ x # y
    /\ Len(deps) = 3 /\ {foo, bar, quux} = 1..3
    /\ deps[foo].second = <<[first |-> x, second |-> FALSE], [first |-> y, second |-> FALSE]>>
    /\ deps[bar].second = <<[first |-> x, second |-> TRUE]>>
    /\ deps[quux].second = <<[first |-> y, second |-> FALSE]>>

\* C14: when X declares ro(foo) and rw(bar), Y declares ro(foo) and ro(quux)
\* and nothing else is declared, the final graph has no edge between X and Y;
\* a log of a single access sets no cell; and a recorder without a task
\* compiles to a matrix of no cell, hence of no edge.
C14_Independent ==
    /\ \A n \in 1..Len(deps) :
          Len(deps[n].second) = 1 => Walk(deps[n].second, 1, {}) = {}
    /\ (Compiled /\ Len(task) = 0) =>
          (last.graph.edges = <<>> /\ Rel(last.graph.edges) = {})
    /\ Compiled =>
          \A x \in Tasks : \A y \in Tasks : \A foo \in 1..3 : \A bar \in 1..3 : \A quux \in 1..3 :
              Independent(x, y, foo, bar, quux) =>
                  /\ ~Edge(last.graph.edges, x, y) /\ ~Edge(last.graph.edges, y, x)
                  /\ ~Edge(last.graph.synthesized, x, y) /\ ~Edge(last.graph.synthesized, y, x)

\* C14 witness: the compiled recorder of X and Y, foo declared first
C14_Witness ==
    /\ Compiled
    /\ \E x \in Tasks : \E y \in Tasks : \E bar \in 2..3 : \E quux \in 2..3 :
          Independent(x, y, 1, bar, quux)

\* the position pairs p < q of a log with no Write strictly between them that
\* are a Write then a Read, a Read then a Write, or two Writes in a row
Ordered(log) ==
    {pq \in (1..Len(log)) \X (1..Len(log)) :
        /\ pq[1] < pq[2]
        /\ \A m \in (pq[1] + 1)..(pq[2] - 1) : ~log[m].second
        /\ \/ log[pq[1]].second /\ ~log[pq[2]].second
           \/ ~log[pq[1]].second /\ log[pq[2]].second
           \/ log[pq[1]].second /\ log[pq[2]].second /\ pq[2] = pq[1] + 1}

\* C15: for every log the synthesis sets the cell (task(p), task(q)) exactly
\* for the position pairs p < q with no Write strictly between them that are
\* Write-Read, Read-Write, or Write-Write with q = p + 1; the synthesized
\* matrix has edge (i, j) exactly when some log has such a pair of tasks i, j.
C15_SynthesisExact ==
    /\ \A n \in 1..Len(deps) : Walk(deps[n].second, 1, {}) = Ordered(deps[n].second)
    /\ Compiled =>
          \A i \in Tasks : \A j \in Tasks :
              Edge(last.graph.synthesized, i, j) <=>
                  \E n \in 1..Len(deps) : \E pq \in Ordered(deps[n].second) :
                      deps[n].second[pq[1]].first = i /\ deps[n].second[pq[2]].first = j

\* C15 witness: a compiled log Write, Read, Write, Read of four registered tasks:
\* a run of Reads between two Writes and a run of Reads with no later Write
C15_Witness ==
    /\ Compiled
    /\ \E n \in 1..Len(deps) :
          LET log == deps[n].second IN
          /\ Len(log) = 4 /\ DistinctTasks(log)
          /\ log[1].second /\ ~log[2].second /\ log[3].second /\ ~log[4].second
          /\ Edge(last.graph.synthesized, log[3].first, log[4].first)

\* C16: when the synthesized relation is acyclic, with R the closed matrix
\* after the diagonal is cleared, the final graph has edge (i, j) if and only
\* if R[i][j] holds and no k has R[i][k] and R[k][j]: the in-place pass
\* removes the redundant edges, all of them and no other.
C16_ReductionExact ==
    (Compiled /\ Acyclic(last.graph.synthesized)) =>
        LET R == ClearDiagonal(last.graph.closed, Len(task)) IN
        \A i \in Tasks : \A j \in Tasks :
            Edge(last.graph.edges, i, j) <=>
                (Edge(R, i, j) /\ ~\E k \in Tasks : Edge(R, i, k) /\ Edge(R, k, j))

\* C16 witness: an acyclic relation with a path i -> j -> m -> k in which m is
\* visited before j by the outer loop, so that the pass has cleared (j, k)
\* when it reads it to decide on the redundant edge (i, k)
C16_Witness ==
    /\ Compiled /\ Acyclic(last.graph.synthesized)
    /\ \E i \in Tasks : \E j \in Tasks : \E m \in Tasks : \E k \in Tasks :
          /\ m < j
          /\ Edge(last.graph.edges, i, j) /\ Edge(last.graph.edges, j, m)
          /\ Edge(last.graph.edges, m, k)
          /\ Edge(last.graph.closed, j, k) /\ Edge(last.graph.closed, i, k)
          /\ ~Edge(last.graph.edges, i, k)

\* C17: the closed matrix has edge (i, j) if and only if the synthesized
\* relation has a path of one or more edges from i to j, cyclic or not.
C17_ClosureExact ==
    Compiled => Rel(last.graph.closed) = Reach(last.graph.synthesized)

\* C17 witness: a synthesized relation with a cycle and a path of three edges
\* that the closure reports as an edge
C17_Witness ==
    /\ Compiled
    /\ ~NoDiagonal(last.graph.closed)
    /\ \E i \in Tasks : \E j \in Tasks :
          /\ Edge(last.graph.closed, i, j)
          /\ <<i, j>> \notin Paths(Rel(last.graph.synthesized), 2)

\* C18: when every task() call since the last clear() names an unseen key,
\* every edge of the final graph goes from a lower task index to a strictly
\* higher one; the graph is then acyclic.
C18_ForwardEdges ==
    Compiled =>
        /\ \A i \in Tasks : \A j \in Tasks : Edge(last.graph.edges, i, j) => i < j
        /\ Acyclic(last.graph.edges)

\* C18 witness: two tasks registered one after the other, compiled to a graph with an edge
C18_Witness ==
    /\ Compiled
    /\ Len(task) >= 2
    /\ \E i \in Tasks : \E j \in Tasks : Edge(last.graph.edges, i, j)

\* C19 as stated: in every reachable recorder state every edge of the final
\* graph is an edge of the synthesized matrix.
C19_FinalWithinSynthesized ==
    Compiled => Rel(last.graph.edges) \subseteq Rel(last.graph.synthesized)

\* C19 as amended: every edge of the final graph is an edge of the
\* synthesized matrix in every reachable recorder state whose synthesized
\* relation is acyclic.
C19_FinalWithinSynthesizedWhenAcyclic ==
    (Compiled /\ Acyclic(last.graph.synthesized))
        => Rel(last.graph.edges) \subseteq Rel(last.graph.synthesized)

\* C19 witness: an acyclic synthesized relation to which the closure has added
\* an edge, compiled to a graph that has edges
C19_Witness ==
    /\ Compiled /\ Acyclic(last.graph.synthesized)
    /\ last.graph.closed # last.graph.synthesized
    /\ Rel(last.graph.edges) # {}

\* every event of every log carries the index of a registered task: a
\* std::size_t smaller than the size of the registry (placeholder, the
\* largest std::size_t, is not)
EventsInRange ==
    \A n \in 1..Len(deps) : \A p \in 1..Len(deps[n].second) :
        deps[n].second[p].first \in Tasks

\* C20: after any sequence of task / ro / rw / clear calls every event of
\* every log carries a task index smaller than the number N of registered
\* tasks, so that every cell row * N + column written by the synthesis lies
\* in [0, N * N).
C20_EventsInRange ==
    /\ EventsInRange
    /\ ~OutOfBounds(deps, Len(task))

\* C20 for the builds that evaluate their assertions
C20_EventsInRangeWhenAsserted == assertions => C20_EventsInRange

====
